---- MODULE Spec2Model ----
(***************************************************************************)
(* A model of train_gpt2.py: the CausalSelfAttention forward pass, the GPT *)
(* constructor, the parameter copy of GPT.from_pretrained, DataLoaderLite  *)
(* and the module-level generation loop.  Each component has its own       *)
(* specification; a variable that a specification does not use keeps the   *)
(* value Idle.  An exception is the name of its class.  Python sequences are 0-indexed in the source and 1-indexed *)
(* here; the cursor and the slice bounds keep the source's 0-based values. *)
(***************************************************************************)
EXTENDS Integers, Sequences, FiniteSets, TLC

VARIABLES
    loader,     \* the DataLoaderLite object: B, T, tokens, current_position
    batch,      \* what the last next_batch call did: cursor at the call, x, y, error
    first_x,    \* the x returned by the first successful next_batch call
    gpt,        \* the outcome of GPT(config)
    sd_hf,      \* from_pretrained: the foreign state dict, name -> tensor
    sd,         \* from_pretrained: the model's state dict, name -> storage id
    storage,    \* from_pretrained: storage id -> tensor
    al,         \* from_pretrained: position in lines 143-169
    attn,       \* CausalSelfAttention.forward on two inputs
    gen         \* the generation loop: x, error, iterations

vars == <<loader, batch, first_x, gpt, sd_hf, sd, storage, al, attn, gen>>

Idle == "idle"

NoError == "none"

(***************************************************************************)
(* Bounds of the model.                                                    *)
(***************************************************************************)
MaxTokens == 6      \* longest corpus
MaxB == 2           \* largest batch size B
MaxT == 2           \* largest sequence length T of a batch
MaxTokenId == 1     \* token ids are 0..MaxTokenId

MaxBlockSize == 2   \* largest config.block_size
MaxVocab == 2       \* largest config.vocab_size
MaxLayer == 2       \* largest config.n_layer
MaxHead == 3        \* largest config.n_head
MaxEmbd == 4        \* largest config.n_embd
MaxAttnT == 3       \* longest input of the attention layer, and its block_size
MaxPrefix == 2      \* longest generation prefix
MaxLength == 3      \* largest max_length of the generation loop
MaxRows == 2        \* largest num_return_sequences

TokenIds == 0..MaxTokenId

RECURSIVE SeqsUpTo(_, _)
\* all sequences over S of length at most n
SeqsUpTo(S, n) ==
    IF n = 0 THEN {<<>>}
    ELSE LET shorter == SeqsUpTo(S, n - 1)
         IN  shorter \cup {Append(s, e) : s \in {t \in shorter : Len(t) = n - 1}, e \in S}

(***************************************************************************)
(* Python sequence primitives.                                             *)
(***************************************************************************)
Min(a, b) == IF a < b THEN a ELSE b

\* s[lo:hi] for 0 <= lo, 0 <= hi: the bounds are clamped to the length
PySlice(s, lo, hi) ==
    LET h == Min(hi, Len(s))
        l == Min(lo, Len(s))
    IN  IF l >= h THEN <<>> ELSE SubSeq(s, l + 1, h)

\* s[:-1]
DropLast(s) == IF Len(s) = 0 THEN <<>> ELSE SubSeq(s, 1, Len(s) - 1)

\* mutant: the targets are not shifted
DropFirstUnshifted(s) == IF Len(s) = 0 THEN <<>> ELSE SubSeq(s, 1, Len(s) - 1)

\* s[1:]
DropFirst(s) == IF Len(s) = 0 THEN <<>> ELSE SubSeq(s, 2, Len(s))

\* flat.view(B, T): B rows of T elements in row-major order; the caller
\* checks that the element count is B*T
View(flat, B, T) == [b \in 1..B |-> [t \in 1..T |-> flat[(b - 1) * T + t]]]

(***************************************************************************)
(* DataLoaderLite.                                                         *)
(***************************************************************************)
NoLoader == [made |-> FALSE, B |-> 0, T |-> 0, tokens |-> <<>>, current_position |-> 0]

\* no x has been returned yet (a returned x has B >= 1 rows)
NoX == <<>>

\* at: the cursor when next_batch was called (-1: not called yet); wrapped: the
\* call reset the cursor; after_wrap: the call before this one reset the cursor
NoBatch == [at |-> -1, x |-> <<>>, y |-> <<>>, err |-> NoError, wrapped |-> FALSE,
            after_wrap |-> FALSE]

\* mutant: the reset looks only at the next B*T tokens, not at B*T+1
AdvanceNoLookahead(c, B, T, n) ==
    IF c + B * T + B * T > n THEN 0 ELSE c + B * T

\* lines 202-204: the cursor after a batch read at c: advanced by B*T, reset
\* when the next read of B*T+1 tokens would pass the end
Advance(c, B, T, n) ==
    IF c + B * T + (B * T + 1) > n THEN 0 ELSE c + B * T

\* DataLoaderLite.__init__(B, T): the corpus is read and tokenized, the cursor
\* starts at 0; the length of the corpus is not looked at
DataLoaderLite_init(B, T, toks) ==
    /\ ~loader.made
    /\ loader' = [made |-> TRUE, B |-> B, T |-> T, tokens |-> toks,
                  current_position |-> 0]
    /\ UNCHANGED <<batch, first_x, gpt, sd_hf, sd, storage, al, attn, gen>>

\* DataLoaderLite.next_batch()
next_batch ==
    /\ loader.made
    /\ LET B == loader.B
           T == loader.T
           c == loader.current_position
           buf == PySlice(loader.tokens, c, c + B * T + 1)
       IN  IF Len(DropLast(buf)) # B * T
           THEN \* view(B, T) raises: the shape does not fit the element count
                /\ batch' = [at |-> c, x |-> <<>>, y |-> <<>>,
                             err |-> "RuntimeError", wrapped |-> FALSE,
                             after_wrap |-> batch.wrapped]
                /\ UNCHANGED <<loader, first_x>>
           ELSE LET x == View(DropLast(buf), B, T)
                    y == View(DropFirst(buf), B, T)
                    nc == Advance(c, B, T, Len(loader.tokens))
                IN  /\ batch' = [at |-> c, x |-> x, y |-> y, err |-> NoError,
                                 wrapped |-> (nc = 0), after_wrap |-> batch.wrapped]
                    /\ loader' = [loader EXCEPT !.current_position = nc]
                    /\ first_x' = IF first_x = NoX THEN x ELSE first_x
    /\ UNCHANGED <<gpt, sd_hf, sd, storage, al, attn, gen>>

InitLoader ==
    /\ loader = NoLoader
    /\ batch = NoBatch
    /\ first_x = NoX
    /\ gpt = Idle /\ sd_hf = Idle /\ sd = Idle /\ storage = Idle
    /\ al = Idle /\ attn = Idle /\ gen = Idle

\* the corpora input.txt may hold, tokenized
Corpora == SeqsUpTo(TokenIds, MaxTokens)

NextLoader ==
    \/ /\ ~loader.made
       /\ \E B \in 1..MaxB, T \in 1..MaxT, toks \in Corpora :
             DataLoaderLite_init(B, T, toks)
    \/ next_batch

SpecLoader == InitLoader /\ [][NextLoader]_vars

\* the training loop keeps calling next_batch
FairSpecLoader == SpecLoader /\ WF_vars(next_batch)

\* the corpus holds at least one full window
LongEnough == Len(loader.tokens) >= loader.B * loader.T + 1

\* C7: for a corpus of at least B*T+1 tokens, a next_batch call made with cursor
\* c succeeds, returns x[b][t] = tokens[c + (b-1)*T + t - 1] and
\* y[b][t] = tokens[c + (b-1)*T + t] (0-based token indices) as B rows of T
\* elements, and leaves the cursor at c+B*T, or at 0 if c+B*T + B*T+1 passes
\* the end of the corpus.
C7_WindowContract ==
    (loader.made /\ LongEnough /\ batch.at # -1) =>
        LET B == loader.B
            T == loader.T
            c == batch.at
            N == Len(loader.tokens)
        IN  /\ batch.err = NoError
            /\ c + B * T + 1 <= N
            /\ DOMAIN batch.x = 1..B /\ DOMAIN batch.y = 1..B
            /\ \A b \in 1..B :
                  /\ DOMAIN batch.x[b] = 1..T /\ DOMAIN batch.y[b] = 1..T
                  /\ \A t \in 1..T :
                        /\ batch.x[b][t] = loader.tokens[c + (b - 1) * T + t]
                        /\ batch.y[b][t] = loader.tokens[c + (b - 1) * T + t + 1]
            /\ loader.current_position =
                  (IF c + B * T + B * T + 1 > N THEN 0 ELSE c + B * T)

\* a call at a cursor other than 0 on a corpus whose tokens differ
C7_Witness ==
    /\ loader.made /\ LongEnough
    /\ batch.at > 0 /\ batch.err = NoError
    /\ batch.x # batch.y

\* C8: for a corpus of at least B*T+1 tokens, repeated next_batch calls wrap
\* the cursor to 0 again and again, and the call that follows a wrap is made
\* at cursor 0 and returns the x of the very first call.
C8_RoundTrip ==
    /\ []((loader.made /\ LongEnough) => <>batch.wrapped)
    /\ []((loader.made /\ LongEnough /\ batch.after_wrap) =>
            (batch.err = NoError /\ batch.at = 0 /\ batch.x = first_x))

\* the call after a wrap, on a corpus of at least two windows
C8_Witness ==
    /\ loader.made /\ batch.after_wrap /\ batch.err = NoError
    /\ Len(loader.tokens) >= 2 * loader.B * loader.T + 1
    /\ batch.x = first_x

\* C9: a loader exists only for a corpus of at least B*T+1 tokens, and
\* next_batch is never called on a shorter one.
C9_ShortCorpusRejected ==
    /\ loader.made => LongEnough
    /\ batch.at # -1 => LongEnough

(***************************************************************************)
(* GPT.__init__.                                                           *)
(***************************************************************************)
\* GPTConfig: any field values; n_layer may be 0 (no block is built)
Configs ==
    [block_size : 1..MaxBlockSize, vocab_size : 1..MaxVocab,
     n_layer : 0..MaxLayer, n_head : 1..MaxHead, n_embd : 1..MaxEmbd]

NoConfig == [block_size |-> 0, vocab_size |-> 0, n_layer |-> 0, n_head |-> 0,
             n_embd |-> 0]

NoGPT == [called |-> FALSE, made |-> FALSE, err |-> NoError, config |-> NoConfig,
          wte_weight |-> 0, lm_head_weight |-> 0]

\* mutant: the operands of the divisibility check are swapped
CausalSelfAttention_init_swapped(config) ==
    IF config.n_head % config.n_embd = 0 THEN NoError ELSE "AssertionError"

\* CausalSelfAttention.__init__, line 12: the exception it raises, if any
CausalSelfAttention_init(config) ==
    IF config.n_embd % config.n_head = 0 THEN NoError ELSE "AssertionError"

\* Block.__init__: LayerNorm and MLP take any n_embd >= 1
Block_init(config) == CausalSelfAttention_init(config)

\* line 85: [Block(config) for _ in range(config.n_layer)]; every Block gets
\* the same config, so the first one decides; no Block is built for n_layer 0
BlockList_init(config) ==
    IF config.n_layer >= 1 THEN Block_init(config) ELSE NoError

\* line 94: self.apply(_init_weights). _init_weights is a method of the class,
\* not a name of the function's or the module's scope: evaluating the argument
\* raises NameError before apply is called
ApplyInitWeights == "NameError"

\* GPT.__init__(config), lines 78-94. Storage 1 is the tensor nn.Embedding
\* allocates for wte, storage 2 the one nn.Linear allocates for lm_head; line
\* 91 binds wte.weight to lm_head's tensor. An exception leaves no object.
GPT_init_result(config) ==
    LET wte0 == 1
        lm_head0 == 2
        tied == [wte_weight |-> lm_head0, lm_head_weight |-> lm_head0]
        e1 == BlockList_init(config)
        e2 == IF e1 # NoError THEN e1 ELSE ApplyInitWeights
    IN  IF e2 # NoError
        THEN [called |-> TRUE, made |-> FALSE, err |-> e2, config |-> config,
              wte_weight |-> 0, lm_head_weight |-> 0]
        ELSE [called |-> TRUE, made |-> TRUE, err |-> NoError, config |-> config,
              wte_weight |-> tied.wte_weight,
              lm_head_weight |-> tied.lm_head_weight]

GPT_init(config) ==
    /\ ~gpt.called
    /\ gpt' = GPT_init_result(config)
    /\ UNCHANGED <<loader, batch, first_x, sd_hf, sd, storage, al, attn, gen>>

InitGPT ==
    /\ gpt = NoGPT
    /\ loader = Idle /\ batch = Idle /\ first_x = Idle
    /\ sd_hf = Idle /\ sd = Idle /\ storage = Idle
    /\ al = Idle /\ attn = Idle /\ gen = Idle

NextGPT == \E config \in Configs : GPT_init(config)

SpecGPT == InitGPT /\ [][NextGPT]_vars

\* C2: once GPT(config) has run on a config whose n_embd is a multiple of
\* n_head, the model exists and its token-embedding table and its
\* output-projection weight are one tensor.
C2_WeightTying ==
    (gpt.called /\ gpt.config.n_embd % gpt.config.n_head = 0) =>
        (gpt.made /\ gpt.wte_weight = gpt.lm_head_weight)

EndsWith(k, w) == Len(k) >= Len(w) /\ SubSeq(k, Len(k) - Len(w) + 1, Len(k)) = w

Reverse(s) == [i \in 1..Len(s) |-> s[Len(s) + 1 - i]]

RECURSIVE Numel(_)
Numel(shape) == IF shape = <<>> THEN 1 ELSE Head(shape) * Numel(Tail(shape))

\* mutant: the elements are kept in their order under the reversed shape
TransposeAsView(t) == [shape |-> Reverse(t.shape), data |-> t.data]

\* Tensor.t(): a 2-D tensor with its axes swapped; a tensor of fewer
\* dimensions as it is
Transpose(t) ==
    IF Len(t.shape) < 2 THEN t
    ELSE LET r == t.shape[1]
             c == t.shape[2]
         IN  [shape |-> <<c, r>>,
              data |-> [n \in 1..(r * c) |->
                          LET i == ((n - 1) \div r) + 1   \* row of the result
                              j == ((n - 1) % r) + 1      \* column of the result
                          IN  t.data[(j - 1) * c + i]]]

\* line 155
transposed == <<"attn.c_attn.weight", "attn.c_proj.weight", "mlp.c_fc.weight",
                "mlp.c_proj.weight">>

\* line 160: any(k.endswith(w) for w in transposed)
IsTransposed(k) == \E n \in 1..Len(transposed) : EndsWith(k, transposed[n])

\* The model side: parameters and buffers of a model with one block, n_embd 2
\* and vocab_size 3, in state_dict order, restricted to one name of each kind
\* the copy distinguishes.
ModelOrder == <<"transformer.wte.weight",
                "transformer.h.0.attn.c_attn.weight",
                "transformer.h.0.attn.c_attn.bias",
                "transformer.h.0.attn.c_proj.weight",
                "transformer.h.0.attn.bias",
                "lm_head.weight">>

ModelShape(k) ==
    CASE k = "transformer.wte.weight" -> <<3, 2>>
      [] k = "transformer.h.0.attn.c_attn.weight" -> <<6, 2>>
      [] k = "transformer.h.0.attn.c_attn.bias" -> <<6>>
      [] k = "transformer.h.0.attn.c_proj.weight" -> <<2, 2>>
      [] k = "transformer.h.0.attn.bias" -> <<1, 1, 2, 2>>
      [] k = "lm_head.weight" -> <<3, 2>>

\* line 91: wte.weight and lm_head.weight are one storage
ModelStorageOf(k) ==
    CASE k = "transformer.wte.weight" -> 1
      [] k = "transformer.h.0.attn.c_attn.weight" -> 2
      [] k = "transformer.h.0.attn.c_attn.bias" -> 3
      [] k = "transformer.h.0.attn.c_proj.weight" -> 4
      [] k = "transformer.h.0.attn.bias" -> 5
      [] k = "lm_head.weight" -> 1

ModelNames == {ModelOrder[n] : n \in 1..Len(ModelOrder)}

\* model.state_dict()
ModelStateDict == [k \in ModelNames |-> ModelStorageOf(k)]

\* the tensors before the copy; their elements are all -1
ModelStorage ==
    [id \in {ModelStorageOf(k) : k \in ModelNames} |->
        LET k == CHOOSE m \in ModelNames : ModelStorageOf(m) = id
        IN  [shape |-> ModelShape(k),
             data |-> [n \in 1..Numel(ModelShape(k)) |-> -1]]]

\* The foreign side, in the order of its state dict: the names above, the
\* vendor's masked_bias buffer and a parameter the model does not have.
ForeignOrder == <<"transformer.wte.weight",
                  "transformer.h.0.attn.bias",
                  "transformer.h.0.attn.masked_bias",
                  "transformer.h.0.attn.c_attn.weight",
                  "transformer.h.0.attn.c_attn.bias",
                  "transformer.h.0.attn.c_proj.weight",
                  "transformer.h.0.mlp.c_gate.weight",
                  "lm_head.weight">>

ForeignNames == {ForeignOrder[n] : n \in 1..Len(ForeignOrder)}

\* the shape of the foreign tensor of a name: the one the copy accepts, or,
\* with refused, one it must refuse
ForeignShape(k, refused) ==
    CASE k = "transformer.wte.weight" -> IF refused THEN <<2, 3>> ELSE <<3, 2>>
      [] k = "transformer.h.0.attn.c_attn.weight" -> IF refused THEN <<6, 2>> ELSE <<2, 6>>
      [] k = "transformer.h.0.attn.c_attn.bias" -> IF refused THEN <<1>> ELSE <<6>>
      [] k = "transformer.h.0.attn.c_proj.weight" -> IF refused THEN <<1, 2>> ELSE <<2, 2>>
      [] k = "lm_head.weight" -> IF refused THEN <<2, 3>> ELSE <<3, 2>>
      [] k = "transformer.h.0.mlp.c_gate.weight" -> <<2, 2>>
      [] k = "transformer.h.0.attn.bias" -> <<1, 1, 2, 2>>
      [] k = "transformer.h.0.attn.masked_bias" -> <<>>

ForeignIndex(k) == CHOOSE n \in 1..Len(ForeignOrder) : ForeignOrder[n] = k

\* a foreign tensor: its elements differ from each other and from those of
\* every other foreign tensor
ForeignTensor(k, shape) ==
    [shape |-> shape, data |-> [n \in 1..Numel(shape) |-> 100 * ForeignIndex(k) + n]]

\* every foreign state dict: any subset of the names, any subset of the
\* model's parameters among them with a shape to refuse
ForeignStateDicts ==
    UNION {{[k \in names |-> ForeignTensor(k, ForeignShape(k, k \in refused))] :
              refused \in SUBSET (names \cap (ModelNames \ {"transformer.h.0.attn.bias"}))} :
           names \in SUBSET ForeignNames}

\* the elements of order that satisfy Keep, in order
RECURSIVE Filter(_, _, _)
Filter(order, present, drop) ==
    IF order = <<>> THEN <<>>
    ELSE LET k == Head(order)
             rest == Filter(Tail(order), present, drop)
         IN  IF k \in present /\ ~(\E n \in 1..Len(drop) : EndsWith(k, drop[n]))
             THEN <<k>> \o rest ELSE rest

\* lines 144-145: the model's keys without the mask buffer
sd_keys == Filter(ModelOrder, DOMAIN sd, <<".attn.bias">>)

\* lines 152-154: the foreign keys without the vendor's buffers
sd_keys_hf == Filter(ForeignOrder, DOMAIN sd_hf, <<".attn.masked_bias", ".attn.bias">>)

\* mutant: a foreign dict with fewer keys passes
KeyCountsMatchAtMost(keys_hf, keys) == Len(keys_hf) <= Len(keys)

\* line 158: assert len(sd_keys_hf) == len(sd_keys)
KeyCountsMatch(keys_hf, keys) == Len(keys_hf) = Len(keys)

\* line 162: assert sd_hf[k].shape[::-1] == sd[k].shape
TransposedShapeOK(src, dst) == Reverse(src.shape) = dst.shape

\* line 167: assert sd_hf[k].shape == sd[k].shape
PlainShapeOK(src, dst) == src.shape = dst.shape

\* lines 164, 169: Tensor.copy_(src) in place. Behind the asserts of lines
\* 162 and 167 src has the shape of dst, and the elements are taken one to one.
CopyInto(dst, src) == [shape |-> dst.shape, data |-> src.data]

NoAlign == [pc |-> "start", i |-> 0, err |-> NoError, last |-> ""]

\* lines 143-158: the key lists and the count check
AlignStart ==
    /\ al.pc = "start"
    /\ al' = IF ~KeyCountsMatch(sd_keys_hf, sd_keys)
             THEN [al EXCEPT !.pc = "failed", !.err = "AssertionError"]
             ELSE IF Len(sd_keys_hf) = 0
                  THEN [al EXCEPT !.pc = "done"]
                  ELSE [al EXCEPT !.pc = "loop", !.i = 1]
    /\ UNCHANGED <<sd_hf, sd, storage, loader, batch, first_x, gpt, attn, gen>>

\* lines 159-169: one iteration of the loop over the foreign keys, and the
\* return after the last one
AlignCopy ==
    /\ al.pc = "loop"
    /\ LET k == sd_keys_hf[al.i]
           src == sd_hf[k]
       IN  IF k \notin DOMAIN sd
           THEN \* sd[k] raises
                /\ al' = [al EXCEPT !.pc = "failed", !.err = "KeyError"]
                /\ UNCHANGED storage
           ELSE LET dst == storage[sd[k]]
                    ok == IF IsTransposed(k) THEN TransposedShapeOK(src, dst)
                          ELSE PlainShapeOK(src, dst)
                    val == IF IsTransposed(k) THEN Transpose(src) ELSE src
                IN  IF ~ok
                    THEN /\ al' = [al EXCEPT !.pc = "failed", !.err = "AssertionError"]
                         /\ UNCHANGED storage
                    ELSE /\ storage' = [storage EXCEPT ![sd[k]] = CopyInto(dst, val)]
                         /\ al' = [al EXCEPT !.last = k, !.i = al.i + 1,
                                       !.pc = IF al.i = Len(sd_keys_hf) THEN "done"
                                              ELSE "loop"]
    /\ UNCHANGED <<sd_hf, sd, loader, batch, first_x, gpt, attn, gen>>

InitAlign ==
    /\ sd_hf \in ForeignStateDicts
    /\ sd = ModelStateDict
    /\ storage = ModelStorage
    /\ al = NoAlign
    /\ loader = Idle /\ batch = Idle /\ first_x = Idle /\ gpt = Idle
    /\ attn = Idle /\ gen = Idle

NextAlign == AlignStart \/ AlignCopy

SpecAlign == InitAlign /\ [][NextAlign]_vars

\* the tensor the model holds under name k
Held(k) == storage[sd[k]]

\* element (i, j), counted from 1, of a 2-D tensor
At(t, i, j) == t.data[(i - 1) * t.shape[2] + j]

C3_Suffixes == {"attn.c_attn.weight", "attn.c_proj.weight", "mlp.c_fc.weight",
                "mlp.c_proj.weight"}

C3_Flipped(k) == \E w \in C3_Suffixes : EndsWith(k, w)

\* the copy rule for one foreign name
C3_RuleHolds(k) ==
    LET src == sd_hf[k]
        dst == Held(k)
    IN  IF C3_Flipped(k)
        THEN /\ Len(src.shape) = 2 /\ Len(dst.shape) = 2
             /\ src.shape[1] = dst.shape[2] /\ src.shape[2] = dst.shape[1]
             /\ \A i \in 1..dst.shape[1], j \in 1..dst.shape[2] :
                   At(dst, i, j) = At(src, j, i)
        ELSE src.shape = dst.shape /\ src.data = dst.data

\* the shapes the copy rule asks of one foreign name
C3_ShapeFits(k) ==
    IF C3_Flipped(k)
    THEN Reverse(sd_hf[k].shape) = ModelShape(k)
    ELSE sd_hf[k].shape = ModelShape(k)

\* C3: the parameter copied last obeys the copy rule (transposed for the four
\* suffixes, unchanged otherwise, the shapes as the rule asks); every foreign
\* key already passed had the shape the rule asks, so the copy ends without an
\* error only if all have; and no tensor of the model changes its shape.
C3_CopyRule ==
    /\ al.last # "" => C3_RuleHolds(al.last)
    /\ al.pc \in {"loop", "done"} =>
          \A n \in 1..(al.i - 1) : C3_ShapeFits(sd_keys_hf[n])
    /\ al.pc = "done" => \A n \in 1..Len(sd_keys_hf) : C3_ShapeFits(sd_keys_hf[n])
    /\ \A k \in DOMAIN sd : Held(k).shape = ModelShape(k)

\* the fused attention projection has been copied, from a 2 x 6 tensor into a
\* 6 x 2 one, and the copy ended well
C3_Witness ==
    /\ al.pc = "done"
    /\ Held("transformer.h.0.attn.c_attn.weight").shape = <<6, 2>>
    /\ sd_hf["transformer.h.0.attn.c_attn.weight"].shape = <<2, 6>>
    /\ At(Held("transformer.h.0.attn.c_attn.weight"), 2, 1)
         = At(sd_hf["transformer.h.0.attn.c_attn.weight"], 1, 2)

\* the model's names without the causal-mask buffer
C4_ModelNameSet == {k \in DOMAIN sd : ~EndsWith(k, ".attn.bias")}

\* the foreign names without the vendor's buffers
C4_ForeignNameSet ==
    {k \in DOMAIN sd_hf : ~EndsWith(k, ".attn.masked_bias") /\ ~EndsWith(k, ".attn.bias")}

\* C4: when the two name sets differ, the copy cannot end well: once it has
\* left the loop it has failed with an exception, and while it is in the loop
\* a key is left to look at.
C4_NameCheck ==
    (C4_ModelNameSet # C4_ForeignNameSet) =>
        /\ al.pc # "done"
        /\ al.pc = "failed" => al.err \in {"AssertionError", "KeyError"}
        /\ al.pc = "loop" => al.i <= Len(sd_keys_hf)

\* two name sets of one size and different names: the copy failed
C4_Witness ==
    /\ C4_ModelNameSet # C4_ForeignNameSet
    /\ Cardinality(C4_ModelNameSet) = Cardinality(C4_ForeignNameSet)
    /\ al.pc = "failed" /\ al.err = "KeyError"

(***************************************************************************)
(* CausalSelfAttention.forward on one batch row.  Inputs and weights are   *)
(* integers.  A softmax weight is the fraction of its exponential in its   *)
(* row's sum; exponentials are taken to base 2 and scaled by the row's     *)
(* smallest score, which keeps them integers and leaves the fractions of a *)
(* row what they are to that base.  Fractions are kept in lowest terms.    *)
(***************************************************************************)
RECURSIVE GCD(_, _)
GCD(a, b) == IF b = 0 THEN a ELSE GCD(b, a % b)

Abs(a) == IF a < 0 THEN -a ELSE a

\* n/d in lowest terms, d > 0
Frac(n, d) ==
    LET g == GCD(Abs(n), d)
    IN  [n |-> n \div g, d |-> d \div g]

FAdd(a, b) == Frac(a.n * b.d + b.n * a.d, a.d * b.d)

FScale(k, a) == Frac(k * a.n, a.d)

RECURSIVE SumInt(_, _)
\* f[1] + ... + f[n]
SumInt(f, n) == IF n = 0 THEN 0 ELSE SumInt(f, n - 1) + f[n]

RECURSIVE SumFrac(_, _)
SumFrac(f, n) == IF n = 0 THEN Frac(0, 1) ELSE FAdd(SumFrac(f, n - 1), f[n])

\* the layer's config: two heads of one feature each, so that the score scale
\* 1/sqrt(head size) of line 30 is exactly 1
AttnConfig == [n_embd |-> 2, n_head |-> 2, block_size |-> MaxAttnT]

\* the feature vectors an input position may hold
AttnVectors == {<<0, 1>>, <<1, 0>>, <<1, 1>>}

\* weight [out][in] and bias [out] of c_attn (6 x 2) and c_proj (2 x 2)
AttnWeights ==
    { [c_attn_w |-> << <<1, -1>>, <<0, 1>>, <<0, 1>>, <<1, -1>>, <<1, 0>>, <<1, 1>> >>,
       c_attn_b |-> <<0, 0, 0, 0, 1, 0>>,
       c_proj_w |-> << <<1, 1>>, <<1, -1>> >>,
       c_proj_b |-> <<0, 1>>],
      [c_attn_w |-> << <<1, 0>>, <<0, -1>>, <<1, 0>>, <<-1, 1>>, <<0, 1>>, <<1, 0>> >>,
       c_attn_b |-> <<0, 1, -1, 0, 0, 2>>,
       c_proj_w |-> << <<2, 1>>, <<0, 1>> >>,
       c_proj_b |-> <<1, 0>>] }

\* the sequence f, with its elements worked out once
Stored(f) == f \o <<>>

\* the a x b and a x b x c arrays of the values of e
Tensor2(a, b, e(_, _)) ==
    Stored([i \in 1..a |-> Stored([j \in 1..b |-> e(i, j)])])

Tensor3(a, b, c, e(_, _, _)) ==
    Stored([i \in 1..a |-> Stored([j \in 1..b |-> Stored([l \in 1..c |-> e(i, j, l)])])])

\* nn.Linear on integers: out[o] = sum over c of v[c] * w[o][c], plus b[o]
Linear(v, w, b) ==
    [o \in 1..Len(w) |-> SumInt([c \in 1..Len(v) |-> v[c] * w[o][c]], Len(v)) + b[o]]

\* nn.Linear on fractions
LinearFrac(v, w, b) ==
    [o \in 1..Len(w) |->
        FAdd(SumFrac([c \in 1..Len(v) |-> FScale(w[o][c], v[c])], Len(v)),
             Frac(b[o], 1))]

\* mutant: the buffer is all ones
bias_all_ones(block_size) == [i \in 1..block_size |-> [j \in 1..block_size |-> 1]]

\* lines 19-20: the buffer "bias", torch.tril(torch.ones(block_size, block_size))
bias(block_size) ==
    [i \in 1..block_size |-> [j \in 1..block_size |-> IF j <= i THEN 1 ELSE 0]]

\* a score after masked_fill: float('-inf') or a number
NegInf == [neg_inf |-> TRUE, v |-> 0]

Finite(v) == [neg_inf |-> FALSE, v |-> v]

\* lines 23-37 for x of T <= block_size positions: the softmax weights att
\* [head][i][j] and the output y [position][feature]
CausalSelfAttention_forward(w, x) ==
    LET T == Len(x)
        C == AttnConfig.n_embd
        nh == AttnConfig.n_head
        hs == C \div nh
        qkv == Tensor2(T, 3 * C, LAMBDA t, o : Linear(x[t], w.c_attn_w, w.c_attn_b)[o])
        \* split(n_embd, dim=2), then view(B, T, nh, hs).transpose(1, 2)
        q == Tensor3(nh, T, hs, LAMBDA h, t, d : qkv[t][(h - 1) * hs + d])
        k == Tensor3(nh, T, hs, LAMBDA h, t, d : qkv[t][C + (h - 1) * hs + d])
        v == Tensor3(nh, T, hs, LAMBDA h, t, d : qkv[t][2 * C + (h - 1) * hs + d])
        \* line 30, the scale being 1 for hs = 1
        score == Tensor3(nh, T, T, LAMBDA h, i, j :
                    SumInt([d \in 1..hs |-> q[h][i][d] * k[h][j][d]], hs))
        \* line 31: the buffer cut to T x T; -inf where it is 0
        mask == bias(AttnConfig.block_size)
        masked == Tensor3(nh, T, T, LAMBDA h, i, j :
                    IF mask[i][j] = 0 THEN NegInf ELSE Finite(score[h][i][j]))
        \* line 32: softmax over the last axis
        lowest == Tensor2(nh, T, LAMBDA h, i :
                    LET S == {masked[h][i][j].v : j \in {jj \in 1..T : ~masked[h][i][jj].neg_inf}}
                    IN  CHOOSE m \in S : \A n \in S : m <= n)
        ex == Tensor3(nh, T, T, LAMBDA h, i, j :
                 IF masked[h][i][j].neg_inf THEN 0
                 ELSE 2 ^ (masked[h][i][j].v - lowest[h][i]))
        den == Tensor2(nh, T, LAMBDA h, i : SumInt(ex[h][i], T))
        att == Tensor3(nh, T, T, LAMBDA h, i, j : Frac(ex[h][i][j], den[h][i]))
        \* line 33: y = att @ v
        yh == Tensor3(nh, T, hs, LAMBDA h, i, d :
                 SumFrac([j \in 1..T |-> FScale(v[h][j][d], att[h][i][j])], T))
        \* line 34: the heads side by side
        merged == Tensor2(T, C, LAMBDA t, c :
                     yh[((c - 1) \div hs) + 1][t][((c - 1) % hs) + 1])
        \* line 36
        y == Tensor2(T, C, LAMBDA t, o : LinearFrac(merged[t], w.c_proj_w, w.c_proj_b)[o])
    IN  [att |-> att, y |-> y]

NoForward == [att |-> <<>>, y |-> <<>>]

\* forward is run on both inputs
AttnForward ==
    /\ ~attn.done
    /\ attn' = [attn EXCEPT !.done = TRUE,
                            !.out1 = CausalSelfAttention_forward(attn.w, attn.x1),
                            !.out2 = CausalSelfAttention_forward(attn.w, attn.x2)]
    /\ UNCHANGED <<loader, batch, first_x, gpt, sd_hf, sd, storage, al, gen>>

AttnInputs ==
    {x \in SeqsUpTo(AttnVectors, AttnConfig.block_size) : Len(x) >= 1}

\* any weights and any two inputs, the second no longer than the first
InitAttn ==
    /\ attn \in {a \in [w : AttnWeights, x1 : AttnInputs, x2 : AttnInputs,
                         done : {FALSE}, out1 : {NoForward}, out2 : {NoForward}] :
                    Len(a.x2) <= Len(a.x1)}
    /\ loader = Idle /\ batch = Idle /\ first_x = Idle /\ gpt = Idle
    /\ sd_hf = Idle /\ sd = Idle /\ storage = Idle /\ al = Idle /\ gen = Idle

NextAttn == AttnForward

SpecAttn == InitAttn /\ [][NextAttn]_vars

\* the two inputs agree on positions 1..i
AgreeUpTo(i) ==
    /\ i <= Len(attn.x1) /\ i <= Len(attn.x2)
    /\ \A p \in 1..i : attn.x1[p] = attn.x2[p]

\* C1: after forward, every attention weight from a position i to a later
\* position j is zero, and two inputs that agree up to position i have the
\* same output at position i.
C1_Causal ==
    attn.done =>
        /\ \A out \in {attn.out1, attn.out2} :
              \A h \in DOMAIN out.att : \A i \in DOMAIN out.att[h] :
                 \A j \in DOMAIN out.att[h][i] :
                    j > i => out.att[h][i][j].n = 0
        /\ \A i \in 1..AttnConfig.block_size :
              AgreeUpTo(i) => attn.out1.y[i] = attn.out2.y[i]

\* two inputs that agree at the first position and differ at the second: the
\* outputs agree at the first and differ at the second
C1_Witness ==
    /\ attn.done
    /\ AgreeUpTo(1) /\ Len(attn.x1) >= 2 /\ Len(attn.x2) >= 2
    /\ attn.x1[2] # attn.x2[2]
    /\ attn.out1.y[1] = attn.out2.y[1]
    /\ attn.out1.y[2] # attn.out2.y[2]

(***************************************************************************)
(* The generation loop, lines 254-279, and GPT.forward as it is called     *)
(* there.  The network's arithmetic is left out: the logits of a row are   *)
(* some fixed function of the row's tokens.                                *)
(***************************************************************************)
TopK == 50

\* the logits the model gives token v after the tokens of row
Logit(row, v) == (SumInt(row, Len(row)) + 2 * v) % 3

\* GPT.forward(idx, targets=None), lines 104-122: an assertion error for a row
\* longer than block_size, else the tuple (logits, loss) with loss None;
\* logits [row][position][token]
GPT_forward(idx, block_size, vocab_size) ==
    IF Len(idx[1]) > block_size
    THEN [err |-> "AssertionError", tag |-> "none", logits |-> <<>>]
    ELSE [err |-> NoError, tag |-> "tuple",
          logits |-> [b \in 1..Len(idx) |-> [t \in 1..Len(idx[b]) |->
                        [v \in 1..vocab_size |-> Logit(SubSeq(idx[b], 1, t), v - 1)]]]]

\* line 272: value[:, -1, :]. A tuple takes an integer or a slice as its
\* index, not a tuple of them: TypeError. A tensor gives its last position.
LastPosition(value) ==
    IF value.tag = "tuple"
    THEN [err |-> "TypeError", rows |-> <<>>]
    ELSE [err |-> NoError,
          rows |-> [b \in 1..Len(value.logits) |->
                      value.logits[b][Len(value.logits[b])]]]

RECURSIVE Largest(_, _, _)
\* the (0-based) indices of the k largest elements of p, largest first,
\* without those in taken
Largest(p, k, taken) ==
    IF k = 0 THEN <<>>
    ELSE LET left == (1..Len(p)) \ taken
             best == CHOOSE i \in left :
                        \A j \in left : p[i] > p[j] \/ (p[i] = p[j] /\ i <= j)
         IN  <<best - 1>> \o Largest(p, k - 1, taken \cup {best})

\* line 274: torch.topk(probs, k, dim=-1) raises for k above the size of the
\* last dimension (softmax keeps the order of the logits)
topk(rows, k) ==
    IF \E b \in 1..Len(rows) : k > Len(rows[b])
    THEN [err |-> "RuntimeError", indices |-> <<>>]
    ELSE [err |-> NoError,
          indices |-> [b \in 1..Len(rows) |-> Largest(rows[b], k, {})]]

NoGen == [x |-> <<>>, prefix |-> <<>>, max_length |-> 0, block_size |-> 0,
          vocab_size |-> 0, err |-> NoError, tried |-> 0, done |-> 0]

\* lines 260-263: the prefix repeated num_return_sequences times
GenStates ==
    UNION {{[x |-> [b \in 1..n |-> prefix], prefix |-> prefix, max_length |-> L,
             block_size |-> bs, vocab_size |-> V, err |-> NoError, tried |-> 0,
             done |-> 0] :
               n \in 1..MaxRows, L \in 1..MaxLength, bs \in 1..MaxLength,
               prefix \in {q \in SeqsUpTo(0..(V - 1), MaxPrefix) : Len(q) >= 1}} :
           V \in 1..(MaxTokenId + 1)}

\* lines 269-279: one iteration of the while loop. tried counts the iterations
\* begun, done those that appended a token.
GenIteration ==
    /\ gen.err = NoError
    /\ Len(gen.x[1]) < gen.max_length
    /\ LET out == GPT_forward(gen.x, gen.block_size, gen.vocab_size)
           last == LastPosition(out)
           top == topk(last.rows, TopK)
           failure == IF out.err # NoError THEN out.err
                      ELSE IF last.err # NoError THEN last.err
                      ELSE top.err
       IN  IF failure # NoError
           THEN gen' = [gen EXCEPT !.err = failure, !.tried = gen.tried + 1]
           ELSE \* lines 277-279: multinomial draws a place ix among the k, gather
                \* takes the token at that place, cat appends it
                \E ix \in [1..Len(gen.x) -> 0..(TopK - 1)] :
                   gen' = [gen EXCEPT
                             !.x = [b \in 1..Len(gen.x) |->
                                      Append(gen.x[b], top.indices[b][ix[b] + 1])],
                             !.tried = gen.tried + 1, !.done = gen.done + 1]
    /\ UNCHANGED <<loader, batch, first_x, gpt, sd_hf, sd, storage, al, attn>>

InitGen ==
    /\ gen \in GenStates
    /\ loader = Idle /\ batch = Idle /\ first_x = Idle /\ gpt = Idle
    /\ sd_hf = Idle /\ sd = Idle /\ storage = Idle /\ al = Idle /\ attn = Idle

NextGen == GenIteration

SpecGen == InitGen /\ [][NextGen]_vars

\* the while loop has ended: by an exception or by its condition
GenEnded == gen.err # NoError \/ Len(gen.x[1]) >= gen.max_length

\* C5: for a prefix shorter than max_length, and max_length within the
\* model's block_size, the loop ends without an exception after
\* max_length - len(prefix) iterations, each of which appended one token to
\* every row; every row then has max_length tokens and begins with the prefix.
C5_Generation ==
    (GenEnded /\ Len(gen.prefix) < gen.max_length
              /\ gen.max_length <= gen.block_size) =>
        /\ gen.err = NoError
        /\ gen.tried = gen.max_length - Len(gen.prefix)
        /\ gen.done = gen.tried
        /\ \A b \in 1..Len(gen.x) :
              /\ Len(gen.x[b]) = gen.max_length
              /\ SubSeq(gen.x[b], 1, Len(gen.prefix)) = gen.prefix

\* C6: with top_k above the vocabulary size, an iteration begun on rows the
\* model can take does not fail: it appends a token to every row.
C6_TopKClamped ==
    (gen.tried >= 1 /\ TopK > gen.vocab_size
                    /\ Len(gen.prefix) <= gen.block_size) =>
        (gen.err = NoError /\ gen.done >= 1)

====
